---- MODULE Spec2Model ----
(***************************************************************************)
(* A model of optionstools: the strategy definitions (strategy.py) and the *)
(* three optimizers (optimizer.py).                                        *)
(*                                                                         *)
(* Numbers.  Every real number of the program is a fixed-point integer     *)
(* with three decimals: the integer n stands for n/1000 (Milli).  A        *)
(* product of two such numbers (quantity * premium, premium * (1 + r)) is  *)
(* kept unrounded, in millionths.  A quotient is kept as the pair          *)
(* [num, den].                                                             *)
(***************************************************************************)
EXTENDS Integers, Sequences, FiniteSets, TLC

VARIABLES
    market,         \* the constructor arguments shared by the optimizers
    strategies,     \* the OptionsStrategy objects, one per optimizer slot
    classOptions,   \* the class-level `options` lists of the strategy classes
    created,        \* which optimizer class the caller constructed
    grid,           \* the GridSearchBS instance
    optimizers,     \* the StrategyOptimizerBS instances
    parallel,       \* the ParallelStrategyOptimizerBS instance
    outcome         \* what the last call returned or raised

vars == <<market, strategies, classOptions, created, grid, optimizers, parallel, outcome>>

-----------------------------------------------------------------------------
(* Bounds of the model *)

\* the largest predicted future price, in whole dollars
MaxPrice == 3
\* the largest days_forward, in whole days
MaxDays == 2
\* the most (type, expiration, strike) quotes of a catalog
MaxQuotes == 3
\* the largest quantity the solver ends at
MaxQuantity == 2
\* the most strategies handed to ParallelStrategyOptimizerBS
MaxStrategies == 2

\* three decimals of fixed point: 1.001, 0.999, 0.99, 1.01, 0.001 of strategy.py
Milli == 1000

Max(a, b) == IF a >= b THEN a ELSE b
Min(a, b) == IF a <= b THEN a ELSE b
Abs(a) == IF a >= 0 THEN a ELSE -a

RECURSIVE SeqMin(_)
SeqMin(s) == IF Len(s) = 1 THEN s[1] ELSE Min(s[1], SeqMin(Tail(s)))

RECURSIVE SeqMax(_)
SeqMax(s) == IF Len(s) = 1 THEN s[1] ELSE Max(s[1], SeqMax(Tail(s)))

RECURSIVE Concat(_)
Concat(ss) == IF ss = <<>> THEN <<>> ELSE Head(ss) \o Concat(Tail(ss))

-----------------------------------------------------------------------------
(* strategy.py *)

StrategyNames ==
    {"BullCallSpread", "BearPutSpread", "ProtectiveCollar", "LongStrangle", "LongStraddle"}

\* the class attribute `options` as written in the source
options(name) ==
    CASE name = "BullCallSpread" ->
            << [type |-> "call", action |-> "buy"], [type |-> "call", action |-> "sell"] >>
      [] name = "BearPutSpread" ->
            << [type |-> "put", action |-> "buy"], [type |-> "put", action |-> "sell"] >>
      [] name = "ProtectiveCollar" ->
            << [type |-> "put", action |-> "buy"], [type |-> "call", action |-> "sell"] >>
      [] name = "LongStrangle" ->
            << [type |-> "call", action |-> "buy"], [type |-> "put", action |-> "buy"] >>
      [] name = "LongStraddle" ->
            << [type |-> "put", action |-> "buy"], [type |-> "call", action |-> "buy"] >>

\* OptionsStrategy.leg_count
leg_count(name) == Len(options(name))

\* the property `definition`; lower_bound and upper_bound in fixed point
definition(name) ==
    CASE name = "BullCallSpread" ->
            [A |-> << <<0, 1, 0, -1, 0>>, <<0, 0, 1, 0, -1>> >>,
             lower_bound |-> << -100000 * Milli, 0 >>,
             upper_bound |-> << -1 * Milli, 0 >>]
      [] name = "BearPutSpread" ->
            [A |-> << <<0, 1, 0, -1, 0>>, <<0, 0, 1, 0, -1>> >>,
             lower_bound |-> << 1 * Milli, 0 >>,
             upper_bound |-> << 10000 * Milli, 0 >>]
      [] name = "ProtectiveCollar" ->
            [A |-> << <<0, 0, 1, 0, -1>> >>,
             lower_bound |-> << 0 >>,
             upper_bound |-> << 0 >>]
      [] name = "LongStrangle" ->
            [A |-> << <<0, 0, 1, 0, -1>> >>,
             lower_bound |-> << 0 >>,
             upper_bound |-> << 0 >>]
      [] name = "LongStraddle" ->
            [A |-> << <<0, 1, 0, -1, 0>>, <<0, 0, 1, 0, -1>> >>,
             lower_bound |-> << 0, 0 >>,
             upper_bound |-> << 0, 0 >>]

\* an initial vector with the pair of a third leg
x0ThreeLegs(s) ==
    LET u == s.underlying_price
        d == s.min_days_to_expiration
    IN  << 1 * Milli, u - 1 * Milli, d, u + 1 * Milli, d, u, d >>

\* the property `x0` of a strategy object s
x0(s) ==
    LET u == s.underlying_price
        d == s.min_days_to_expiration
    IN  CASE s.name = "BullCallSpread" ->
                << 1 * Milli, u - 1 * Milli, d + 1 * Milli, u + 1 * Milli, d + 1 * Milli >>
          [] s.name = "BearPutSpread" ->
                << 1 * Milli, u + 1 * Milli, d, u - 1 * Milli, d >>
          [] s.name = "ProtectiveCollar" ->
                << 1 * Milli, u - 1 * Milli, d, u + 1 * Milli, d >>
          [] s.name = "LongStrangle" ->
                << 1 * Milli, u + 1 * Milli, d, u - 1 * Milli, d >>
          [] s.name = "LongStraddle" ->
                << 1 * Milli, u, d, u, d >>

\* the keys of one catalog mapping, in iteration order
Expirations(entries) == [i \in 1..Len(entries) |-> entries[i].days]
\* min([min(strikes) for _, strikes in ....items()]) and its max twin
MinStrike(entries) == SeqMin([i \in 1..Len(entries) |-> SeqMin(entries[i].strikes)])
MaxStrike(entries) == SeqMax([i \in 1..Len(entries) |-> SeqMax(entries[i].strikes)])

\* the option types whose catalog entries `bounds` reads
BoundsTypes(name) ==
    CASE name = "BullCallSpread" -> {"CALL"}
      [] name = "BearPutSpread" -> {"PUT"}
      [] OTHER -> {"CALL", "PUT"}

\* `bounds` raises (min of an empty sequence) when a catalog mapping it reads is empty
BoundsRaises(s) == \E t \in BoundsTypes(s.name) : s.available_options[t] = <<>>

\* the property `bounds` of a strategy object s, where it does not raise
bounds(s) ==
    LET u == s.underlying_price
        call == s.available_options["CALL"]
        put == s.available_options["PUT"]
        floor == s.min_days_to_expiration + 1 * Milli
        callDays == << Max(SeqMin(Expirations(call)), floor), SeqMax(Expirations(call)) >>
        putDays == << Max(SeqMin(Expirations(put)), floor), SeqMax(Expirations(put)) >>
    IN  CASE s.name = "BullCallSpread" ->
                << << 1 * Milli, 1000 * Milli >>,
                   << MinStrike(call), (u * 1001) \div Milli >>,
                   callDays,
                   << (u * 999) \div Milli, MaxStrike(call) >>,
                   callDays >>
          [] s.name = "BearPutSpread" ->
                << << 1 * Milli, 1000 * Milli >>,
                   << MinStrike(put), MaxStrike(put) >>,
                   putDays,
                   << MinStrike(put), MaxStrike(put) >>,
                   putDays >>
          [] s.name = "ProtectiveCollar" ->
                << << 1, 1000 * Milli >>,
                   << MinStrike(put), (u * 990) \div Milli >>,
                   putDays,
                   << (u * 1010) \div Milli, MaxStrike(call) >>,
                   callDays >>
          [] s.name = "LongStrangle" ->
                << << 1 * Milli, 1000 * Milli >>,
                   << (u * 1001) \div Milli, MaxStrike(call) >>,
                   callDays,
                   << MinStrike(put), (u * 999) \div Milli >>,
                   putDays >>
          [] s.name = "LongStraddle" ->
                << << 1 * Milli, 1000 * Milli >>,
                   << MinStrike(put), MaxStrike(put) >>,
                   putDays,
                   << MinStrike(call), MaxStrike(call) >>,
                   callDays >>

-----------------------------------------------------------------------------
(* util.py and the pricing function *)

\* flags with the pairs of buy and sell exchanged
FlagsExchanged(action_string) ==
    IF action_string = "buy" THEN << -1, 1 >> ELSE << 1, -1 >>

\* convert_action_string_to_flags: (open flag, close flag)
convert_action_string_to_flags(action_string) ==
    IF action_string = "buy" THEN << 1, -1 >> ELSE << -1, 1 >>

\* optionstools.pricing.black_scholes_euro_option_price: a pure function of its
\* arguments, never negative, the intrinsic value at days_to_expiration = 0 and
\* growing with the days left and the volatility
price_option(call_flag, underlying, strike, days_to_expiration, r, sigma) ==
    Max(0, call_flag * (underlying - strike)) + sigma * days_to_expiration

-----------------------------------------------------------------------------
(* What a call leaves behind for its caller *)

NoQuantity == [num |-> 0, den |-> 1]

\* the call itself: `by` is the index of the StrategyOptimizerBS instance called
\* (0 for the other classes), `leg` the leg argument of get_profit (<<>> for None)
\* and `price` its equity_price
NoArguments == [by |-> 0, price |-> 0, leg |-> <<>>]

\* what the call handed back besides max_profit and best_strategy: the float of
\* get_profit with the legs it summed over, the items of the dict of
\* get_optimized_strategies, and for the functions of strategy.py and cli.py what
\* was asked and the value returned (the pieces of the message when it raised)
NoMore == [profit |-> 0, priced |-> <<>>, optimized_strategies |-> <<>>,
           asked |-> <<>>, value |-> <<>>]

\* a call that returned None, a float or a list of legs
Returned(op, profit, legs) ==
    [op |-> op, status |-> "return", exc |-> "", max_profit |-> profit, best_strategy |-> legs,
     args |-> NoArguments, more |-> NoMore]

\* a call that raised
Raised(op, exc) ==
    [op |-> op, status |-> "raise", exc |-> exc, max_profit |-> 0, best_strategy |-> <<>>,
     args |-> NoArguments, more |-> NoMore]

NoCall ==
    [op |-> "", status |-> "none", exc |-> "", max_profit |-> 0, best_strategy |-> <<>>,
     args |-> NoArguments, more |-> NoMore]

-----------------------------------------------------------------------------
(* optimizer.py: GridSearchBS *)

\* the per-leg flags of GridSearchBS.optimize
buy_flag(option) == IF option.action = "buy" THEN 1 ELSE -1
call_flag(option) == IF option.type = "call" THEN 1 ELSE -1

\* available.lower() of a catalog key
Lower(available) == IF available = "CALL" THEN "call" ELSE "put"

\* the [call_flag, buy_flag, strikes, days] lists one leg appends: every expiration of
\* the matching catalog type in the mapping's order, every strike in list order
LegCandidates(option, available_options) ==
    LET OfType(available) ==
            IF option.type = Lower(available)
            THEN LET entries == available_options[available]
                 IN  Concat([i \in 1..Len(entries) |->
                        [j \in 1..Len(entries[i].strikes) |->
                            << call_flag(option), buy_flag(option),
                               entries[i].strikes[j], entries[i].days >>]])
            ELSE <<>>
    IN  OfType("CALL") \o OfType("PUT")

\* call_buy, call_sell, put_buy, put_sell: one list per (type, action), shared by the
\* legs of that type and action, each of which appends its candidates to it
Bucket(type, action, opts, available_options) ==
    Concat([i \in 1..Len(opts) |->
        IF opts[i].type = type /\ opts[i].action = action
        THEN LegCandidates(opts[i], available_options)
        ELSE <<>>])

\* combos: per leg, the list of its (type, action)
Combos(opts, available_options) ==
    [i \in 1..Len(opts) |-> Bucket(opts[i].type, opts[i].action, opts, available_options)]

\* list(product(*combos)): the leftmost list varies slowest
RECURSIVE Product(_)
Product(combos) ==
    IF combos = <<>> THEN << <<>> >>
    ELSE LET rest == Product(Tail(combos))
             first == Head(combos)
         IN  Concat([i \in 1..Len(first) |->
                        [j \in 1..Len(rest) |-> << first[i] >> \o rest[j]]])

\* one leg's term of `profit`, in millionths
LegProfit(leg, m) ==
    Milli * Max(0, m.future_price - leg[3])
    - price_option(leg[1], m.current_price, leg[3], leg[4], m.r, m.sigma) * (Milli + m.r) * leg[2]

\* one leg's term of `premium`
LegPremium(leg, m) ==
    - price_option(leg[1], m.current_price, leg[3], leg[4], m.r, m.sigma) * leg[2]

\* `profit` and `premium` of a combination s: the sums over its legs
RECURSIVE StratProfit(_, _)
StratProfit(s, m) ==
    IF s = <<>> THEN 0 ELSE LegProfit(Head(s), m) + StratProfit(Tail(s), m)

RECURSIVE StratPremium(_, _)
StratPremium(s, m) ==
    IF s = <<>> THEN 0 ELSE LegPremium(Head(s), m) + StratPremium(Tail(s), m)

\* `if profit > max_profit:` of the scan
Improves(profit, max_profit) == profit > max_profit

\* the loop over strats, from max_profit = 0, cost = 0, opt_strategy = []
RECURSIVE Scan(_, _, _)
Scan(strats, m, best) ==
    IF strats = <<>> THEN best
    ELSE LET s == Head(strats)
             profit == StratProfit(s, m)
         IN  Scan(Tail(strats), m,
                  IF Improves(profit, best.max_profit)
                  THEN [max_profit |-> profit, opt_strategy |-> s, cost |-> StratPremium(s, m)]
                  ELSE best)

ScanStart == [max_profit |-> 0, opt_strategy |-> <<>>, cost |-> 0]

\* the strategy object GridSearchBS was built with
GridStrategy == strategies[1]

GridStrats == Product(Combos(classOptions[GridStrategy.name], GridStrategy.available_options))

GridBest == Scan(GridStrats, market, ScanStart)

\* the attributes set before the division of the last line
GridStored(best) ==
    [grid EXCEPT !.is_optimized = TRUE,
                 !.attrs = @ \cup {"_max_profit", "_opt_strategy"},
                 !._max_profit = best.max_profit,
                 !._opt_strategy = best.opt_strategy]

\* abs(self.max_premium / cost) raises on the int 0 no winner replaced and on a
\* float 0.0; on a numpy float64 0.0 it is inf
DivisionRaises(best, m) ==
    best.cost = 0 /\ (best.opt_strategy = <<>> \/ m.premium_type = "float")

\* GridSearchBS.optimize, called once per instance
GridOptimize ==
    /\ created = "GridSearchBS"
    /\ ~grid.is_optimized
    /\ LET best == GridBest
       IN  IF DivisionRaises(best, market)
           THEN /\ grid' = GridStored(best)
                /\ outcome' = Raised("optimize", "ZeroDivisionError")
           ELSE /\ grid' = [GridStored(best) EXCEPT
                               !.attrs = @ \cup {"_quantity"},
                               !._quantity = [num |-> Abs(market.max_premium),
                                              den |-> Abs(best.cost)]]
                /\ outcome' = Returned("optimize", 0, <<>>)
    /\ UNCHANGED <<market, strategies, classOptions, created, optimizers, parallel>>

\* the property GridSearchBS.max_profit: the attribute is read before the flag
GridMaxProfitResult ==
    IF "_max_profit" \notin grid.attrs THEN Raised("max_profit", "AttributeError")
    ELSE IF ~grid.is_optimized
         THEN Raised("max_profit", "UnoptimizedStrategyOptimizerException")
         ELSE Returned("max_profit", grid._max_profit, <<>>)

GridMaxProfit ==
    /\ created = "GridSearchBS"
    /\ outcome' = GridMaxProfitResult
    /\ UNCHANGED <<market, strategies, classOptions, created, grid, optimizers, parallel>>

\* a leg dict whose action is read from the call flag of the entry
GridLegActionOfType(s, quantity) ==
    [type |-> IF s[1] = 1 THEN "call" ELSE "put",
     action |-> IF s[1] = 1 THEN "buy" ELSE "sell",
     strike |-> s[3],
     days_to_expiration |-> s[4],
     quantity |-> quantity]

\* the dict GridSearchBS.best_strategy builds for one entry of the winner
GridLeg(s, quantity) ==
    [type |-> IF s[1] = 1 THEN "call" ELSE "put",
     action |-> IF s[2] = 1 THEN "buy" ELSE "sell",
     strike |-> s[3],
     days_to_expiration |-> s[4],
     quantity |-> quantity]

\* the property GridSearchBS.best_strategy: both attributes are read before the flag
GridBestStrategyResult ==
    IF "_opt_strategy" \notin grid.attrs \/ "_quantity" \notin grid.attrs
    THEN Raised("best_strategy", "AttributeError")
    ELSE IF ~grid.is_optimized
         THEN Raised("best_strategy", "UnoptimizedStrategyOptimizerException")
         ELSE Returned("best_strategy", 0,
                       [i \in 1..Len(grid._opt_strategy) |->
                            GridLeg(grid._opt_strategy[i], grid._quantity)])

GridBestStrategy ==
    /\ created = "GridSearchBS"
    /\ outcome' = GridBestStrategyResult
    /\ UNCHANGED <<market, strategies, classOptions, created, grid, optimizers, parallel>>

-----------------------------------------------------------------------------
(* optimizer.py: StrategyOptimizerBS *)

\* optionstools.pricing.black_scholes_euro_option_price_fixed: the premium of the
\* option with days_forward days gone, as the signed cash flow of the action flag
\* (negative for the flag +1 of a premium paid)
price_option_fixed(action_flag, flag, underlying, r, sigma, days_forward, K, T) ==
    - action_flag * price_option(flag, underlying, K, Max(T - days_forward, 0), r, sigma)

\* cost_function_list[i](K, T) of optimize, for leg `option`
LegCost(option, m, K, T) ==
    price_option_fixed(convert_action_string_to_flags(option.action)[1], call_flag(option),
                       m.current_price, m.r, m.sigma, 0, K, T)

\* revenue_function_list[i](K, T) of optimize, for leg `option`
LegRevenue(option, m, K, T) ==
    price_option_fixed(convert_action_string_to_flags(option.action)[2], call_flag(option),
                       m.future_price, m.r, m.sigma, m.days_forward, K, T)

\* sum([f(*x_i) for f, x_i in zip(cost_function_list, KT_array)]), from leg i on
RECURSIVE SumCost(_, _, _, _)
SumCost(opts, m, x, i) ==
    IF i > Len(opts) THEN 0
    ELSE LegCost(opts[i], m, x[2 * i], x[2 * i + 1]) + SumCost(opts, m, x, i + 1)

\* sum([f(*x_i) for f, x_i in zip(revenue_function_list, KT_array)]), from leg i on
RECURSIVE SumRevenue(_, _, _, _)
SumRevenue(opts, m, x, i) ==
    IF i > Len(opts) THEN 0
    ELSE LegRevenue(opts[i], m, x[2 * i], x[2 * i + 1]) + SumRevenue(opts, m, x, i + 1)

\* cost_(x) of _get_cost_function, in millionths
cost_(opts, m, x) == x[1] * SumCost(opts, m, x, 1)

\* revenue_(x) of _get_revenue_function, in millionths
revenue_(opts, m, x) == x[1] * SumRevenue(opts, m, x, 1)

\* neg_profit_(x) of _get_profit_function
neg_profit_(opts, m, x) == -(revenue_(opts, m, x) + cost_(opts, m, x))

\* one row of A times x
RECURSIVE Dot(_, _)
Dot(row, x) == IF row = <<>> THEN 0 ELSE Head(row) * Head(x) + Dot(Tail(row), Tail(x))

\* a linear constraint that tests lower_bound alone
LowerBoundAlone(name, x) ==
    LET d == definition(name)
    IN  \A i \in 1..Len(d.A) : d.lower_bound[i] <= Dot(d.A[i], x)

\* LinearConstraint(A, lower_bound, upper_bound) at x
strategy_definition(name, x) ==
    LET d == definition(name)
    IN  \A i \in 1..Len(d.A) :
            /\ d.lower_bound[i] <= Dot(d.A[i], x)
            /\ Dot(d.A[i], x) <= d.upper_bound[i]

\* NonlinearConstraint(cost, -self.max_premium, 100_000) at x
premium_expenditures(opts, m, x) ==
    /\ - m.max_premium * Milli <= cost_(opts, m, x)
    /\ -((- cost_(opts, m, x)) \div Milli) <= 100000 * Milli

\* the bounds handed to minimize are refused when a lower bound exceeds its upper bound
BoundsRefused(b) == \E j \in 1..Len(b) : b[j][1] > b[j][2]

Clip(v, pair) == Max(pair[1], Min(v, pair[2]))

\* scipy.optimize.minimize(method='SLSQP'): the points of the box the model lets
\* the solver end at: the lower corner, the upper corner of the strikes and days,
\* the clipped start point, and the corner that spreads the strikes apart; the
\* quantity is the least one or MaxQuantity
SolverPoints(b, start) ==
    LET most == Clip(MaxQuantity * Milli, b[1])
    IN  { [j \in 1..Len(b) |-> b[j][1]],
          [j \in 1..Len(b) |-> IF j = 1 THEN most ELSE b[j][2]],
          [j \in 1..Len(b) |-> Clip(start[j], b[j])],
          [j \in 1..Len(b) |-> IF j = 1 THEN most ELSE IF j = 4 THEN b[j][2] ELSE b[j][1]] }

\* the OptimizeResult objects minimize may return: fun is the objective at x, and
\* success is reported only at a point that meets both constraints
SolverResults(s, opts, m) ==
    UNION { { [x |-> x, fun |-> neg_profit_(opts, m, x), success |-> ok] :
                ok \in { FALSE,
                         strategy_definition(s.name, x) /\ premium_expenditures(opts, m, x) } } :
            x \in SolverPoints(bounds(s), x0(s)) }

NoResult == [x |-> <<>>, fun |-> 0, success |-> FALSE]

\* StrategyOptimizerBS.__init__ for the strategy object at index i of strategies
NewOptimizer(i) ==
    [strategy |-> i, is_optimized |-> FALSE, has_result |-> FALSE, _optimization_result |-> NoResult]

\* does StrategyOptimizerBS.optimize raise before minimize returns
OptimizeRaises(o) ==
    LET s == strategies[o.strategy]
    IN  BoundsRaises(s) \/ BoundsRefused(bounds(s))

\* the instance after an optimize() that stored `result`
Optimized(o, result) ==
    [o EXCEPT !.has_result = TRUE, !._optimization_result = result, !.is_optimized = TRUE]

\* the results optimize() of instance o may store
OptimizeResults(o) ==
    LET s == strategies[o.strategy]
    IN  SolverResults(s, classOptions[s.name], market)

\* StrategyOptimizerBS.optimize, called once per instance
Optimize(i) ==
    /\ created = "StrategyOptimizerBS"
    /\ i \in 1..Len(optimizers)
    /\ ~optimizers[i].is_optimized
    /\ IF OptimizeRaises(optimizers[i])
       THEN /\ optimizers' = optimizers
            /\ outcome' = Raised("optimize", "ValueError")
       ELSE /\ \E result \in OptimizeResults(optimizers[i]) :
                    optimizers' = [optimizers EXCEPT ![i] = Optimized(@, result)]
            /\ outcome' = Returned("optimize", 0, <<>>)
    /\ UNCHANGED <<market, strategies, classOptions, created, grid, parallel>>

\* the property StrategyOptimizerBS.max_profit of instance o
MaxProfitResult(o) ==
    IF ~o.is_optimized
    THEN Raised("max_profit", "UnoptimizedStrategyOptimizerException")
    ELSE Returned("max_profit", - o._optimization_result.fun, <<>>)

MaxProfit(i) ==
    /\ created = "StrategyOptimizerBS"
    /\ i \in 1..Len(optimizers)
    /\ outcome' = [MaxProfitResult(optimizers[i]) EXCEPT !.args.by = i]
    /\ UNCHANGED <<market, strategies, classOptions, created, grid, optimizers, parallel>>

\* the loop of best_strategy: leg j of the class-level list gets x[1::2][j],
\* x[2::2][j] and x[0]; the dicts are those of the class, shared by its instances
Annotate(opts, x) ==
    [j \in 1..Len(opts) |->
        IF 2 * j + 1 <= Len(x)
        THEN [opts[j] EXCEPT !.solved = << [strike |-> x[2 * j],
                                             days_to_expiration |-> x[2 * j + 1],
                                             quantity |-> [num |-> x[1], den |-> Milli]] >>]
        ELSE opts[j]]

\* the list best_strategy returns, read at the time it returns
LegsOf(opts) ==
    [j \in 1..Len(opts) |->
        [type |-> opts[j].type,
         action |-> opts[j].action,
         strike |-> opts[j].solved[1].strike,
         days_to_expiration |-> opts[j].solved[1].days_to_expiration,
         quantity |-> opts[j].solved[1].quantity]]

\* the class-level options after instance o's best_strategy ran
BestStrategyOptions(o) ==
    LET name == strategies[o.strategy].name
    IN  [classOptions EXCEPT ![name] = Annotate(@, o._optimization_result.x)]

\* the property StrategyOptimizerBS.best_strategy of instance o
BestStrategyResult(o) ==
    IF ~o.is_optimized
    THEN Raised("best_strategy", "UnoptimizedStrategyOptimizerException")
    ELSE Returned("best_strategy", 0,
                  LegsOf(BestStrategyOptions(o)[strategies[o.strategy].name]))

BestStrategy(i) ==
    /\ created = "StrategyOptimizerBS"
    /\ i \in 1..Len(optimizers)
    /\ outcome' = [BestStrategyResult(optimizers[i]) EXCEPT !.args.by = i]
    /\ classOptions' = IF optimizers[i].is_optimized
                       THEN BestStrategyOptions(optimizers[i])
                       ELSE classOptions
    /\ UNCHANGED <<market, strategies, created, grid, optimizers, parallel>>

\* an index of a Python slice on a list of n entries
SliceIndex(k, n) == IF k < 0 THEN Max(k + n, 0) ELSE Min(k, n)

\* the legs `self.best_strategy[leg - 1:leg] if leg else self.best_strategy` keeps
\* of n legs, by their place in the list: None and 0 are both false
GetProfitOptions(leg, n) ==
    IF leg = <<>> \/ leg[1] = 0
    THEN [k \in 1..n |-> k]
    ELSE LET start == SliceIndex(leg[1] - 1, n)
             stop == SliceIndex(leg[1], n)
         IN  [k \in 1..Max(stop - start, 0) |-> start + k]

\* the two `profit -=` lines of get_profit for one leg, in millionths; the days
\* left at the close are days_to_expiration - days_forward as they come
RepricedLeg(option, m, equity_price) ==
    LET flags == convert_action_string_to_flags(option.action)
        flag == IF option.type = "call" THEN 1 ELSE -1
        premium_open == price_option(flag, m.current_price, option.strike,
                                     option.days_to_expiration, m.r, m.sigma)
        premium_close == price_option(flag, equity_price, option.strike,
                                      option.days_to_expiration - m.days_forward,
                                      m.r, m.sigma)
    IN  - option.quantity.num * flags[1] * premium_open
        - option.quantity.num * flags[2] * premium_close

\* the loop of get_profit over the legs kept, from the k-th of them on
RECURSIVE Repriced(_, _, _, _, _)
Repriced(legs, kept, m, equity_price, k) ==
    IF k > Len(kept) THEN 0
    ELSE RepricedLeg(legs[kept[k]], m, equity_price)
         + Repriced(legs, kept, m, equity_price, k + 1)

\* the legs get_profit reads when the class-level dicts were last written by
\* whichever instance, not by this one
StaleLegs(o) ==
    LET opts == classOptions[strategies[o.strategy].name]
    IN  IF \E j \in 1..Len(opts) : opts[j].solved = <<>>
        THEN LegsOf(BestStrategyOptions(o)[strategies[o.strategy].name])
        ELSE LegsOf(opts)

\* self.best_strategy as get_profit reads it
GetProfitLegs(o) == LegsOf(BestStrategyOptions(o)[strategies[o.strategy].name])

\* StrategyOptimizerBS.get_profit(equity_price, leg) of instance o
GetProfitResult(o, equity_price, leg) ==
    LET args == [by |-> o.strategy, price |-> equity_price, leg |-> leg]
    IN  IF ~o.is_optimized
        THEN [Raised("get_profit", "UnoptimizedStrategyOptimizerException") EXCEPT !.args = args]
        ELSE LET legs == GetProfitLegs(o)
                 kept == GetProfitOptions(leg, Len(legs))
             IN  [Returned("get_profit", 0, <<>>) EXCEPT
                     !.args = args,
                     !.more.profit = Repriced(legs, kept, market, equity_price, 1),
                     !.more.priced = kept]

GetProfit(i, equity_price, leg) ==
    /\ created = "StrategyOptimizerBS"
    /\ i \in 1..Len(optimizers)
    /\ outcome' = GetProfitResult(optimizers[i], equity_price, leg)
    /\ classOptions' = IF optimizers[i].is_optimized
                       THEN BestStrategyOptions(optimizers[i])
                       ELSE classOptions
    /\ UNCHANGED <<market, strategies, created, grid, optimizers, parallel>>

-----------------------------------------------------------------------------
(* optimizer.py: ParallelStrategyOptimizerBS *)

\* ParallelStrategyOptimizerBS.__init__; its _strategy_optimizers are `optimizers`
NewParallel == [is_optimized |-> FALSE, pc |-> "idle", tasks |-> <<>>]

\* optimize(), up to asyncio.gather: one task per sub-optimizer
ParallelOptimizeStart ==
    /\ created = "ParallelStrategyOptimizerBS"
    /\ parallel.pc = "idle"
    /\ ~parallel.is_optimized
    /\ parallel' = [parallel EXCEPT !.pc = "gather",
                                    !.tasks = [i \in 1..Len(optimizers) |-> "pending"]]
    /\ outcome' = NoCall
    /\ UNCHANGED <<market, strategies, classOptions, created, grid, optimizers>>

\* inner_optimization(optimizer) of one task: optimizer.optimize()
InnerOptimization(i) ==
    /\ created = "ParallelStrategyOptimizerBS"
    /\ parallel.pc = "gather"
    /\ i \in 1..Len(optimizers)
    /\ parallel.tasks[i] = "pending"
    /\ IF OptimizeRaises(optimizers[i])
       THEN /\ optimizers' = optimizers
            /\ parallel' = [parallel EXCEPT !.tasks[i] = "raised"]
       ELSE /\ \E result \in OptimizeResults(optimizers[i]) :
                    optimizers' = [optimizers EXCEPT ![i] = Optimized(@, result)]
            /\ parallel' = [parallel EXCEPT !.tasks[i] = "done"]
    /\ UNCHANGED <<market, strategies, classOptions, created, grid, outcome>>

\* a gather that swallows the exceptions of its tasks
GatherSwallows(tasks) == FALSE

\* did the gather of the tasks fail
GatherRaises(tasks) == \E i \in 1..Len(tasks) : tasks[i] = "raised"

\* optimize(), from the return of asyncio.run: the flag is set after the gather
ParallelOptimizeEnd ==
    /\ created = "ParallelStrategyOptimizerBS"
    /\ parallel.pc = "gather"
    /\ \A i \in 1..Len(optimizers) : parallel.tasks[i] # "pending"
    /\ IF GatherRaises(parallel.tasks)
       THEN /\ parallel' = [parallel EXCEPT !.pc = "idle"]
            /\ outcome' = Raised("optimize", "ValueError")
       ELSE /\ parallel' = [parallel EXCEPT !.pc = "idle", !.is_optimized = TRUE]
            /\ outcome' = Returned("optimize", 0, <<>>)
    /\ UNCHANGED <<market, strategies, classOptions, created, grid, optimizers>>

\* [opt.max_profit for opt in self._strategy_optimizers]
SubProfits == [i \in 1..Len(optimizers) |-> MaxProfitResult(optimizers[i]).max_profit]

\* min(...) of a list: the first of the least elements
RECURSIVE ArgMin(_, _, _)
ArgMin(values, i, best) ==
    IF i > Len(values) THEN best
    ELSE ArgMin(values, i + 1, IF values[i] < values[best] THEN i ELSE best)

\* max(...) of a list: the first of the greatest elements
RECURSIVE ArgMax(_, _, _)
ArgMax(values, i, best) ==
    IF i > Len(values) THEN best
    ELSE ArgMax(values, i + 1, IF values[i] > values[best] THEN i ELSE best)

\* a max_profit that does not test the flag
ParallelMaxProfitUnguarded ==
    Returned("max_profit", SubProfits[ArgMax(SubProfits, 1, 1)], <<>>)

\* the property ParallelStrategyOptimizerBS.max_profit
ParallelMaxProfitResult ==
    IF ~parallel.is_optimized
    THEN Raised("max_profit", "UnoptimizedStrategyOptimizerException")
    ELSE Returned("max_profit", SubProfits[ArgMax(SubProfits, 1, 1)], <<>>)

ParallelMaxProfit ==
    /\ created = "ParallelStrategyOptimizerBS"
    /\ parallel.pc = "idle"
    /\ outcome' = ParallelMaxProfitResult
    /\ UNCHANGED <<market, strategies, classOptions, created, grid, optimizers, parallel>>

\* best_optimizer of ParallelStrategyOptimizerBS.best_strategy
BestOptimizer == ArgMax(SubProfits, 1, 1)

\* the property ParallelStrategyOptimizerBS.best_strategy
ParallelBestStrategyResult ==
    IF ~parallel.is_optimized
    THEN Raised("best_strategy", "UnoptimizedStrategyOptimizerException")
    ELSE BestStrategyResult(optimizers[BestOptimizer])

ParallelBestStrategy ==
    /\ created = "ParallelStrategyOptimizerBS"
    /\ parallel.pc = "idle"
    /\ outcome' = ParallelBestStrategyResult
    /\ classOptions' = IF parallel.is_optimized
                       THEN BestStrategyOptions(optimizers[BestOptimizer])
                       ELSE classOptions
    /\ UNCHANGED <<market, strategies, created, grid, optimizers, parallel>>

\* the class-level options after best_strategy ran on the sub-optimizers i, i + 1,
\* ... in turn, starting from the lists co
RECURSIVE AnnotateAll(_, _)
AnnotateAll(co, i) ==
    IF i > Len(optimizers) THEN co
    ELSE AnnotateAll([co EXCEPT ![strategies[optimizers[i].strategy].name] =
                                     Annotate(@, optimizers[i]._optimization_result.x)],
                     i + 1)

\* d[key] = i on the items of a dict: a key already there keeps its place and
\* takes the new value
DictSet(items, key, i) ==
    IF \E k \in 1..Len(items) : items[k].name = key
    THEN [k \in 1..Len(items) |-> IF items[k].name = key THEN [name |-> key, of |-> i]
                                                          ELSE items[k]]
    ELSE Append(items, [name |-> key, of |-> i])

\* the keys of the dict comprehension over the sub-optimizers i, i + 1, ..., each
\* with the sub-optimizer whose value it ends up with
RECURSIVE StrategyKeys(_, _)
StrategyKeys(items, i) ==
    IF i > Len(optimizers) THEN items
    ELSE StrategyKeys(DictSet(items, strategies[optimizers[i].strategy].name, i), i + 1)

\* the items of the dict get_optimized_strategies returns; the legs are the dicts
\* of the class, read when the call returns
OptimizedStrategies ==
    LET keys == StrategyKeys(<<>>, 1)
        final == AnnotateAll(classOptions, 1)
    IN  [k \in 1..Len(keys) |->
            [name |-> keys[k].name,
             max_profit |-> SubProfits[keys[k].of],
             best_strategy |-> LegsOf(final[keys[k].name])]]

\* ParallelStrategyOptimizerBS.get_optimized_strategies
GetOptimizedStrategiesResult ==
    IF ~parallel.is_optimized
    THEN Raised("get_optimized_strategies", "UnoptimizedStrategyOptimizerException")
    ELSE [Returned("get_optimized_strategies", 0, <<>>) EXCEPT
             !.more.optimized_strategies = OptimizedStrategies]

GetOptimizedStrategies ==
    /\ created = "ParallelStrategyOptimizerBS"
    /\ parallel.pc = "idle"
    /\ outcome' = GetOptimizedStrategiesResult
    /\ classOptions' = IF parallel.is_optimized
                       THEN AnnotateAll(classOptions, 1)
                       ELSE classOptions
    /\ UNCHANGED <<market, strategies, created, grid, optimizers, parallel>>

-----------------------------------------------------------------------------
(* The inputs and the specification *)

\* the predicted prices and the horizons
Prices == { p * Milli : p \in 1..MaxPrice }
Horizons == { d * Milli : d \in 1..MaxDays }
\* the price of the underlying: two dollars
Spot == 2 * Milli
\* the strikes the catalogs quote, one below and one above the underlying, and
\* the expirations they list
Strikes == { 1 * Milli, 3 * Milli }
Days == { 1 * Milli, 2 * Milli }

RECURSIVE Quotes(_)
Quotes(entries) ==
    IF entries = <<>> THEN 0 ELSE Len(Head(entries).strikes) + Quotes(Tail(entries))

Distinct(s) == \A i, j \in 1..Len(s) : i # j => s[i] # s[j]

\* the strike lists of one expiration: no strike twice, in any order
StrikeLists ==
    { l \in UNION { [1..n -> Strikes] : n \in 1..Min(MaxQuotes, Cardinality(Strikes)) } : Distinct(l) }

\* one option type's mapping from days to strikes, as its items in iteration order
EntryLists ==
    { e \in UNION { [1..n -> [days : Days, strikes : StrikeLists]] : n \in 0..Min(MaxQuotes, Cardinality(Days)) } :
        Distinct(Expirations(e)) /\ Quotes(e) <= MaxQuotes }

\* the available-options catalogs of at most MaxQuotes quotes
Catalogs ==
    { c \in [CALL : EntryLists, PUT : EntryLists] : Quotes(c.CALL) + Quotes(c.PUT) <= MaxQuotes }

\* bounds reads a catalog through min and max alone: the catalogs in ascending order
Ascending(s) == \A i \in 1..(Len(s) - 1) : s[i] < s[i + 1]

SortedCatalogs ==
    { c \in Catalogs :
        \A t \in {"CALL", "PUT"} :
            /\ Ascending(Expirations(c[t]))
            /\ \A i \in 1..Len(c[t]) : Ascending(c[t][i].strikes) }

\* catalogs as api.continuous_prices builds them: one ascending grid, the same
\* strikes at every expiration, for calls and puts alike
SharedGridCatalogs ==
    { [CALL |-> e, PUT |-> e] :
        e \in { l \in EntryLists :
                    /\ [CALL |-> l, PUT |-> <<>>] \in SortedCatalogs
                    /\ \A i, j \in 1..Len(l) : l[i].strikes = l[j].strikes } }

\* the class-level lists as the module is loaded: two-key dicts
LoadedOptions ==
    [name \in StrategyNames |->
        [j \in 1..Len(options(name)) |->
            [type |-> options(name)[j].type, action |-> options(name)[j].action, solved |-> <<>>]]]

\* GridSearchBS.__init__
NewGrid ==
    [is_optimized |-> FALSE, attrs |-> {}, _max_profit |-> 0, _opt_strategy |-> <<>>,
     _quantity |-> NoQuantity]

\* the market arguments; premium_type is the type of the premiums the pricing
\* function returns.  GridSearchBS reads neither days_forward nor the strategy's
\* underlying_price and min_days_to_expiration; StrategyOptimizerBS never divides
InitGrid ==
    /\ created = "GridSearchBS"
    /\ market \in [current_price : {Spot}, future_price : Prices, days_forward : {1 * Milli},
                   r : {10}, sigma : {1}, max_premium : {5 * Milli},
                   premium_type : {"float", "float64"}]
    /\ strategies \in [1..1 -> [name : StrategyNames, underlying_price : {Spot},
                                min_days_to_expiration : {0}, available_options : Catalogs]]
    /\ optimizers = <<>>

InitContinuous ==
    /\ created = "StrategyOptimizerBS"
    /\ market \in [current_price : {Spot}, future_price : Prices, days_forward : Horizons,
                   r : {10}, sigma : {1}, max_premium : {1 * Milli, 5 * Milli},
                   premium_type : {"float64"}]
    /\ strategies \in [1..1 -> [name : StrategyNames, underlying_price : {Spot},
                                min_days_to_expiration : {0, 1 * Milli},
                                available_options : SortedCatalogs]]
    /\ optimizers = [i \in 1..Len(strategies) |-> NewOptimizer(i)]

\* the strategies of one parallel optimizer are built from one catalog, as the
\* command line builds them; the first may ask for later expirations than the rest
InitParallel ==
    /\ created = "ParallelStrategyOptimizerBS"
    /\ market \in [current_price : {Spot}, future_price : {3 * Milli},
                   days_forward : {1 * Milli},
                   r : {10}, sigma : {1}, max_premium : {5 * Milli},
                   premium_type : {"float64"}]
    /\ \E n \in 1..MaxStrategies, c \in SharedGridCatalogs :
          /\ strategies \in [1..n -> [name : StrategyNames, underlying_price : {Spot},
                                      min_days_to_expiration : {0, 1 * Milli},
                                      available_options : {c}]]
          /\ \A i \in 2..n : strategies[i].min_days_to_expiration = 0
    /\ optimizers = [i \in 1..Len(strategies) |-> NewOptimizer(i)]

Init ==
    /\ InitGrid \/ InitContinuous \/ InitParallel
    /\ classOptions = LoadedOptions
    /\ grid = NewGrid
    /\ parallel = NewParallel
    /\ outcome = NoCall

Next ==
    \/ GridOptimize
    \/ GridMaxProfit
    \/ GridBestStrategy
    \/ \E i \in 1..Len(optimizers) : Optimize(i)
    \/ \E i \in 1..Len(optimizers) : MaxProfit(i)
    \/ \E i \in 1..Len(optimizers) : BestStrategy(i)
    \/ ParallelOptimizeStart
    \/ \E i \in 1..Len(optimizers) : InnerOptimization(i)
    \/ ParallelOptimizeEnd
    \/ ParallelMaxProfit
    \/ ParallelBestStrategy
    \/ GetOptimizedStrategies

Spec == Init /\ [][Next]_vars

\* Two StrategyOptimizerBS instances of one caller, on two strategy objects built
\* from one full grid, and every call the class offers.
PairCatalog ==
    LET e == [i \in 1..2 |-> [days |-> i * Milli, strikes |-> << 1 * Milli, 3 * Milli >>]]
    IN  [CALL |-> e, PUT |-> e]

\* the equity_price and leg arguments of get_profit
EquityPrices == { 3 * Milli }
LegArguments == { <<>> } \cup { << k >> : k \in -1..3 }

InitPair ==
    /\ created = "StrategyOptimizerBS"
    /\ market \in [current_price : {Spot}, future_price : {3 * Milli}, days_forward : Horizons,
                   r : {10}, sigma : {1}, max_premium : {5 * Milli},
                   premium_type : {"float64"}]
    /\ strategies \in [1..2 -> [name : StrategyNames, underlying_price : {Spot},
                                min_days_to_expiration : {0},
                                available_options : {PairCatalog}]]
    /\ optimizers = [i \in 1..Len(strategies) |-> NewOptimizer(i)]
    /\ classOptions = LoadedOptions
    /\ grid = NewGrid
    /\ parallel = NewParallel
    /\ outcome = NoCall

NextPair ==
    \/ \E i \in 1..Len(optimizers) : Optimize(i)
    \/ \E i \in 1..Len(optimizers) : MaxProfit(i)
    \/ \E i \in 1..Len(optimizers) : BestStrategy(i)
    \/ \E i \in 1..Len(optimizers), equity_price \in EquityPrices, leg \in LegArguments :
          GetProfit(i, equity_price, leg)

SpecPair == InitPair /\ [][NextPair]_vars

-----------------------------------------------------------------------------
(* strategy.py and cli.py: the registry of strategy classes *)

\* inspect.getmembers(module, inspect.isclass) of strategy.py: its classes by
\* name, in the order of the names, each with constructor.__mro__[1]
ModuleClasses ==
    << [name |-> "BearPutSpread", base |-> "OptionsStrategy"],
       [name |-> "BullCallSpread", base |-> "OptionsStrategy"],
       [name |-> "LongStraddle", base |-> "OptionsStrategy"],
       [name |-> "LongStrangle", base |-> "OptionsStrategy"],
       [name |-> "OptionsStrategy", base |-> "ABC"],
       [name |-> "ProtectiveCollar", base |-> "OptionsStrategy"] >>

\* `if constructor.__mro__[1] != abc.ABC`
NotAbstract(c) == c.base # "ABC"

\* a list of every class of the module, the abstract base among them
list_every_class == ModuleClasses

\* list_strategies(): the (name, constructor) pairs
list_strategies == SelectSeq(ModuleClasses, NotAbstract)

\* get_strategy_from_string(name): the constructor of the first pair whose name
\* is name, else Exception(f"No strategy '{name}' is defined.")
get_strategy_from_string(name) ==
    LET pairs == list_strategies
        hits == { i \in 1..Len(pairs) : pairs[i].name = name }
    IN  IF hits # {}
        THEN [Returned("get_strategy_from_string", 0, <<>>) EXCEPT
                 !.more.asked = << name >>,
                 !.more.value = << pairs[CHOOSE i \in hits : \A j \in hits : i <= j].name >>]
        ELSE [Raised("get_strategy_from_string", "Exception") EXCEPT
                 !.more.asked = << name >>,
                 !.more.value = << "No strategy '", name, "' is defined." >>]

\* the names a caller asks for: the classes of the module, a name in another
\* case, a name of no class and the empty string
RequestedNames == StrategyNames \cup { "OptionsStrategy", "bullcallspread", "IronCondor", "" }

GetStrategyFromString(name) ==
    /\ created = "OptionsStrategy"
    /\ outcome' = get_strategy_from_string(name)
    /\ UNCHANGED <<market, strategies, classOptions, created, grid, optimizers, parallel>>

-----------------------------------------------------------------------------
(* strategy.py: the properties of one strategy object, read by a caller that *)
(* built no optimizer                                                        *)

\* the property x0 of the strategy object
ReadX0 ==
    /\ created = "OptionsStrategy"
    /\ outcome' = [Returned("x0", 0, <<>>) EXCEPT !.more.value = x0(strategies[1])]
    /\ UNCHANGED <<market, strategies, classOptions, created, grid, optimizers, parallel>>

\* the property bounds of the strategy object: min() of an empty mapping raises
ReadBounds ==
    /\ created = "OptionsStrategy"
    /\ outcome' = IF BoundsRaises(strategies[1])
                  THEN Raised("bounds", "ValueError")
                  ELSE [Returned("bounds", 0, <<>>) EXCEPT !.more.value = bounds(strategies[1])]
    /\ UNCHANGED <<market, strategies, classOptions, created, grid, optimizers, parallel>>

\* the property definition of the strategy object
ReadDefinition ==
    /\ created = "OptionsStrategy"
    /\ outcome' = [Returned("definition", 0, <<>>) EXCEPT
                      !.more.value = definition(strategies[1].name)]
    /\ UNCHANGED <<market, strategies, classOptions, created, grid, optimizers, parallel>>

\* the vectors [qty, K1, T1, K2, T2] the constraint is tried at: strikes half a
\* dollar, a dollar and a dollar and a half apart, and one that is 100000 above
\* the third and more above the others
TrialStrikes == { 1 * Milli, 1500, 2500, 100002500 }
TrialVectors ==
    { << q, k1, t1, k2, t2 >> : q \in { 1 * Milli, MaxQuantity * Milli },
                                k1 \in TrialStrikes, k2 \in TrialStrikes,
                                t1 \in Days, t2 \in Days }

\* LinearConstraint(A, lower_bound, upper_bound) of the strategy object's
\* definition, evaluated at x
ConstraintAt(x) ==
    /\ created = "OptionsStrategy"
    /\ outcome' = [Returned("strategy_definition", 0, <<>>) EXCEPT
                      !.more.asked = x,
                      !.more.value = << strategy_definition(strategies[1].name, x) >>]
    /\ UNCHANGED <<market, strategies, classOptions, created, grid, optimizers, parallel>>

\* the min_days_to_expiration a caller passes
MinDays == { d * Milli : d \in 0..MaxDays }

\* one strategy object of any class on a catalog as api.continuous_prices
\* builds it (the empty one among them), and no optimizer
InitStrategy ==
    /\ created = "OptionsStrategy"
    /\ market \in [current_price : {Spot}, future_price : {3 * Milli}, days_forward : {1 * Milli},
                   r : {10}, sigma : {1}, max_premium : {5 * Milli},
                   premium_type : {"float64"}]
    /\ strategies \in [1..1 -> [name : StrategyNames, underlying_price : {Spot},
                                min_days_to_expiration : MinDays,
                                available_options : SharedGridCatalogs]]
    /\ optimizers = <<>>
    /\ classOptions = LoadedOptions
    /\ grid = NewGrid
    /\ parallel = NewParallel
    /\ outcome = NoCall

NextStrategy ==
    \/ \E name \in RequestedNames : GetStrategyFromString(name)
    \/ ReadX0
    \/ ReadBounds
    \/ ReadDefinition
    \/ \E x \in TrialVectors : ConstraintAt(x)

SpecStrategy == InitStrategy /\ [][NextStrategy]_vars

-----------------------------------------------------------------------------
(* The claims *)

NotYetRun == "UnoptimizedStrategyOptimizerException"

\* the is_optimized flag of the instance the caller constructed
IsOptimized ==
    CASE created = "GridSearchBS" -> grid.is_optimized
      [] created = "StrategyOptimizerBS" -> optimizers[1].is_optimized
      [] created = "ParallelStrategyOptimizerBS" -> parallel.is_optimized

ReadMade == outcome.op \in {"max_profit", "best_strategy"}

\* C1: a read of max_profit or best_strategy on an instance that was never optimized
\* fails with the 'optimizer not yet run' error and with nothing else.
C1_ReadBeforeOptimizeNotYetRun ==
    (ReadMade /\ ~IsOptimized) => (outcome.status = "raise" /\ outcome.exc = NotYetRun)

\* C2: whenever is_optimized is true, max_profit and best_strategy return a value.
C2_OptimizedIsReadable ==
    (ReadMade /\ IsOptimized) => outcome.status = "return"

\* the winner GridSearchBS stored is a combination of the greatest profit
GridStoredIsMaximum ==
    /\ \A i \in 1..Len(GridStrats) : StratProfit(GridStrats[i], market) <= grid._max_profit
    /\ \E i \in 1..Len(GridStrats) :
          /\ StratProfit(GridStrats[i], market) = grid._max_profit
          /\ grid._opt_strategy = GridStrats[i]

\* C3: with at least one candidate combination, after GridSearchBS.optimize() the
\* stored max_profit is the greatest profit of the combinations and the stored
\* winner attains it.
C3_GridStoresMaximum ==
    (created = "GridSearchBS" /\ grid.is_optimized /\ GridStrats # <<>>) => GridStoredIsMaximum

\* C4: with no candidate combination, optimize() raises and no later read of
\* max_profit returns a value.
C4_EmptyGridIsAnError ==
    (created = "GridSearchBS" /\ GridStrats = <<>>) =>
        /\ outcome.op = "optimize" => outcome.status = "raise"
        /\ outcome.op = "max_profit" => outcome.status = "raise"

\* the error optimize() raises when there is no candidate combination
ZeroCandidateError == "ZeroDivisionError"

\* C5: when the winner's net premium is zero, optimize() raises an error other than
\* the zero-candidate error and the stored quantity is finite.
C5_ZeroPremiumIsAnError ==
    (/\ created = "GridSearchBS"
     /\ grid.is_optimized
     /\ grid._opt_strategy # <<>>
     /\ StratPremium(grid._opt_strategy, market) = 0) =>
        /\ outcome.op = "optimize" =>
              (outcome.status = "raise" /\ outcome.exc # ZeroCandidateError)
        /\ "_quantity" \in grid.attrs => grid._quantity.den # 0

\* [quantity, K1, T1, ..., Kn, Tn] of a list of solved legs; the quantity column of
\* every A is zero
Vector(legs) ==
    << 0 >> \o Concat([i \in 1..Len(legs) |-> << legs[i].strike, legs[i].days_to_expiration >>])

\* C6: the winning legs of a completed GridSearchBS.optimize() satisfy the
\* strategy's linear constraint lower_bound <= A.x <= upper_bound.
C6_GridWinnerMeetsDefinition ==
    (created = "GridSearchBS" /\ outcome.op = "best_strategy" /\ outcome.status = "return") =>
        strategy_definition(strategies[1].name, Vector(outcome.best_strategy))

Within(v, pair) == pair[1] <= v /\ v <= pair[2]

\* C7: each leg i of the best_strategy of an optimized StrategyOptimizerBS or
\* GridSearchBS has its strike and its days within the strategy's bounds.
C7_LegsWithinBounds ==
    (/\ created \in {"GridSearchBS", "StrategyOptimizerBS"}
     /\ outcome.op = "best_strategy"
     /\ outcome.status = "return"
     /\ ~BoundsRaises(strategies[1])) =>
        \A i \in 1..Len(outcome.best_strategy) :
            /\ Within(outcome.best_strategy[i].strike, bounds(strategies[1])[2 * i])
            /\ Within(outcome.best_strategy[i].days_to_expiration, bounds(strategies[1])[2 * i + 1])

\* the one quantity the legs of the constructed optimizer carry
SolvedQuantity ==
    IF created = "GridSearchBS"
    THEN [num |-> Abs(market.max_premium),
          den |-> Abs(StratPremium(grid._opt_strategy, market))]
    ELSE [num |-> optimizers[1]._optimization_result.x[1], den |-> Milli]

\* C8: best_strategy of an optimized StrategyOptimizerBS or GridSearchBS returns
\* leg_count legs, in the declared order with the declared type and action, all
\* with the one solved quantity.
C8_LegsAsDeclared ==
    (/\ created \in {"GridSearchBS", "StrategyOptimizerBS"}
     /\ outcome.op = "best_strategy"
     /\ outcome.status = "return") =>
        LET legs == outcome.best_strategy
            declared == options(strategies[1].name)
        IN  /\ Len(legs) = leg_count(strategies[1].name)
            /\ \A i \in 1..Len(legs) :
                  /\ legs[i].type = declared[i].type
                  /\ legs[i].action = declared[i].action
                  /\ legs[i].quantity = SolvedQuantity

C8_Witness ==
    /\ created = "GridSearchBS"
    /\ outcome.op = "best_strategy"
    /\ outcome.status = "return"
    /\ outcome.best_strategy[1].type # outcome.best_strategy[2].type

\* C9: for every strategy whose bounds are defined, x0 and bounds have
\* 1 + 2 * leg_count entries.
C9_LengthsAgree ==
    \A i \in 1..Len(strategies) :
        ~BoundsRaises(strategies[i]) =>
            /\ Len(x0(strategies[i])) = 1 + 2 * leg_count(strategies[i].name)
            /\ Len(bounds(strategies[i])) = 1 + 2 * leg_count(strategies[i].name)

C9_Witness ==
    /\ created = "StrategyOptimizerBS"
    /\ optimizers[1].is_optimized
    /\ strategies[1].name = "LongStraddle"

\* the legs sub-optimizer i solved, from its stored result
SolvedLegs(i) ==
    LET x == optimizers[i]._optimization_result.x
        declared == options(strategies[i].name)
    IN  [j \in 1..Len(declared) |->
            [type |-> declared[j].type,
             action |-> declared[j].action,
             strike |-> x[2 * j],
             days_to_expiration |-> x[2 * j + 1],
             quantity |-> [num |-> x[1], den |-> Milli]]]

SubProfit(i) == - optimizers[i]._optimization_result.fun

IsGreatest(i) == \A j \in 1..Len(optimizers) : SubProfit(j) <= SubProfit(i)

\* C10: after ParallelStrategyOptimizerBS.optimize() completed, max_profit is the
\* greatest max_profit of the sub-optimizers and best_strategy is the best_strategy
\* of a sub-optimizer with that max_profit.
C10_ParallelTakesTheBest ==
    (created = "ParallelStrategyOptimizerBS" /\ outcome.status = "return") =>
        /\ outcome.op = "max_profit" =>
              \E i \in 1..Len(optimizers) : IsGreatest(i) /\ outcome.max_profit = SubProfit(i)
        /\ outcome.op = "best_strategy" =>
              \E i \in 1..Len(optimizers) : IsGreatest(i) /\ outcome.best_strategy = SolvedLegs(i)

C10_Witness ==
    /\ created = "ParallelStrategyOptimizerBS"
    /\ outcome.op = "best_strategy"
    /\ outcome.status = "return"
    /\ Len(optimizers) = 2
    /\ SubProfit(1) < SubProfit(2)

\* C11: the parallel optimizer's is_optimized is true only if every sub-optimizer's
\* is_optimized is true, in whatever order the sub-optimizations ran.
C11_JoinAll ==
    (created = "ParallelStrategyOptimizerBS" /\ parallel.is_optimized) =>
        \A i \in 1..Len(optimizers) : optimizers[i].is_optimized

C11_Witness ==
    /\ created = "ParallelStrategyOptimizerBS"
    /\ parallel.is_optimized
    /\ Len(optimizers) = 2
    /\ strategies[1].name # strategies[2].name

\* the last parallel optimize() has ended and one of its sub-optimizations raised
GatherFailed ==
    /\ created = "ParallelStrategyOptimizerBS"
    /\ parallel.pc = "idle"
    /\ GatherRaises(parallel.tasks)

ParallelReads == {"max_profit", "best_strategy", "get_optimized_strategies"}

\* C12: when a sub-optimizer's optimize() raised, the parallel optimize() raises,
\* is_optimized stays false and every later read raises the 'not yet run' error.
C12_SubErrorPropagates ==
    GatherFailed =>
        /\ ~parallel.is_optimized
        /\ outcome.op = "optimize" => outcome.status = "raise"
        /\ outcome.op \in ParallelReads =>
              (outcome.status = "raise" /\ outcome.exc = NotYetRun)

C12_Witness ==
    /\ GatherFailed
    /\ outcome.op = "get_optimized_strategies"
    /\ \E i, j \in 1..Len(optimizers) :
          parallel.tasks[i] = "raised" /\ parallel.tasks[j] = "done"

\* C13: the mapping get_optimized_strategies returns has, for each strategy of the
\* list, an entry under its name with its own sub-optimizer's max_profit and
\* best_strategy.
C13_EveryStrategyHasItsEntry ==
    (/\ created = "ParallelStrategyOptimizerBS"
     /\ outcome.op = "get_optimized_strategies"
     /\ outcome.status = "return") =>
        \A i \in 1..Len(optimizers) :
            \E k \in 1..Len(outcome.more.optimized_strategies) :
                LET item == outcome.more.optimized_strategies[k]
                IN  /\ item.name = strategies[i].name
                    /\ item.max_profit = SubProfit(i)
                    /\ item.best_strategy = SolvedLegs(i)

\* two strategies of one class that differ in min_days_to_expiration, each solved
\* at the lower corner of its own bounds, and the mapping returned for them
C13_SameClassTwice ==
    /\ created = "ParallelStrategyOptimizerBS"
    /\ outcome.op = "get_optimized_strategies"
    /\ outcome.status = "return"
    /\ Len(optimizers) = 2
    /\ strategies[1].name = strategies[2].name
    /\ strategies[1].min_days_to_expiration # strategies[2].min_days_to_expiration
    /\ \A i \in 1..2 :
          optimizers[i]._optimization_result.x =
              [j \in 1..Len(bounds(strategies[i])) |-> bounds(strategies[i])[j][1]]
    /\ SolvedLegs(1) # SolvedLegs(2)

\* is the last call a best_strategy of instance a that returned its list
ReturnedBestStrategy(a) ==
    /\ outcome.op = "best_strategy"
    /\ outcome.status = "return"
    /\ outcome.args.by = a

\* is this step a best_strategy or a get_profit of an instance other than a
OtherInstanceReads(a) ==
    /\ outcome'.op \in { "best_strategy", "get_profit" }
    /\ outcome'.args.by # a

\* C14: the legs of the list A.best_strategy returned read the same after a
\* best_strategy or a get_profit of another instance B, whatever B's class is
C14_ReturnedLegsKept ==
    [][ \A a \in 1..Len(optimizers) :
            (ReturnedBestStrategy(a) /\ OtherInstanceReads(a))
                => LegsOf(classOptions'[strategies[a].name]) = outcome.best_strategy ]_vars

\* two optimized instances of one class with different solutions, the first of
\* which has just returned its best_strategy
C14_SameClassPair ==
    /\ created = "StrategyOptimizerBS"
    /\ Len(optimizers) = 2
    /\ strategies[1].name = strategies[2].name
    /\ optimizers[1].is_optimized /\ optimizers[2].is_optimized
    /\ optimizers[1]._optimization_result.x # optimizers[2]._optimization_result.x
    /\ ReturnedBestStrategy(1)

\* the float get_profit(equity_price, leg) of instance i returns when it prices
\* the legs of the instance's own stored solver result
OwnProfit(i, equity_price, leg) ==
    LET own == SolvedLegs(i)
    IN  Repriced(own, GetProfitOptions(leg, Len(own)), market, equity_price, 1)

ReturnedProfit == outcome.op = "get_profit" /\ outcome.status = "return"

\* the profit of leg k alone of instance i's solution at equity_price
SingleLegProfit(i, equity_price, k) == RepricedLeg(SolvedLegs(i)[k], market, equity_price)

\* the sum of the profits of the legs k, k + 1, ... of instance i's solution
RECURSIVE SumOfLegs(_, _, _)
SumOfLegs(i, equity_price, k) ==
    IF k > Len(SolvedLegs(i)) THEN 0
    ELSE SingleLegProfit(i, equity_price, k) + SumOfLegs(i, equity_price, k + 1)

\* C16: get_profit(p, leg = k) with 1 <= k <= leg_count prices leg k alone,
\* get_profit(p) prices every leg and returns the sum of the single-leg profits,
\* and with an index outside 1..leg_count it prices neither the whole strategy
\* nor any leg
C16_LegIsTheLegAsked ==
    ReturnedProfit =>
        LET i == outcome.args.by
            leg == outcome.args.leg
            n == Len(SolvedLegs(i))
        IN  IF leg = <<>>
            THEN /\ outcome.more.priced = [k \in 1..n |-> k]
                 /\ outcome.more.profit = SumOfLegs(i, outcome.args.price, 1)
            ELSE IF leg[1] \in 1..n
            THEN /\ outcome.more.priced = << leg[1] >>
                 /\ outcome.more.profit = SingleLegProfit(i, outcome.args.price, leg[1])
            ELSE outcome.more.priced = <<>>

\* get_profit was called with an index outside 1..leg_count and returned
C16_IndexOutOfRange ==
    /\ ReturnedProfit
    /\ outcome.args.leg # <<>>
    /\ outcome.args.leg[1] \notin 1..Len(SolvedLegs(outcome.args.by))

\* has get_profit(future_price) with no leg argument just returned
ReturnedForecastProfit ==
    /\ ReturnedProfit
    /\ outcome.args.leg = <<>>
    /\ outcome.args.price = market.future_price

\* C17: on an optimized StrategyOptimizerBS, get_profit(future_price) with no
\* leg argument returns max_profit, the negated objective of the stored result
C17_ForecastProfitIsMaxProfit ==
    ReturnedForecastProfit =>
        outcome.more.profit = MaxProfitResult(optimizers[outcome.args.by]).max_profit

\* get_profit(future_price) returned for a solution with a leg that expires
\* before the forward horizon
C17_ExpiresBeforeHorizon ==
    /\ ReturnedForecastProfit
    /\ \E k \in 1..Len(SolvedLegs(outcome.args.by)) :
           SolvedLegs(outcome.args.by)[k].days_to_expiration < market.days_forward

\* cost(x) of the stored result of instance i, in millionths
SolvedCost(i) ==
    cost_(classOptions[strategies[i].name], market, optimizers[i]._optimization_result.x)

\* no point the solver may end at meets the budget: max_premium is too small
\* for the least quantity of the bounds
BudgetTooSmall(i) ==
    \A x \in SolverPoints(bounds(strategies[i]), x0(strategies[i])) :
        ~premium_expenditures(classOptions[strategies[i].name], market, x)

\* C18: once optimize() of a StrategyOptimizerBS has completed, the opening
\* cost of its solution meets the budget: cost(x) >= -max_premium
C18_BudgetRespected ==
    \A i \in 1..Len(optimizers) :
        optimizers[i].is_optimized => SolvedCost(i) >= - market.max_premium * Milli

\* max_profit or best_strategy was read from an optimized StrategyOptimizerBS
\* whose budget is too small for the least quantity
C18_ReadWithBudgetTooSmall ==
    /\ created = "StrategyOptimizerBS"
    /\ optimizers[1].is_optimized
    /\ BudgetTooSmall(1)
    /\ outcome.op \in { "max_profit", "best_strategy" }
    /\ outcome.status = "return"

\* minimize returned to instance i a result that reports no success
SolverFailed(i) ==
    /\ optimizers[i].has_result
    /\ ~optimizers[i]._optimization_result.success

\* C19: a StrategyOptimizerBS whose solver result reports no success is not
\* optimized, so max_profit does not return the failed objective
C19_FailureIsAnError ==
    \A i \in 1..Len(optimizers) : SolverFailed(i) => ~optimizers[i].is_optimized

\* max_profit returned the objective of a solver that had no feasible point to
\* end at and reported no success
C19_FailedObjectiveRead ==
    /\ created = "StrategyOptimizerBS"
    /\ SolverFailed(1)
    /\ BudgetTooSmall(1)
    /\ outcome.op = "max_profit"
    /\ outcome.status = "return"
    /\ outcome.max_profit = - optimizers[1]._optimization_result.fun

\* the names of the registered strategies
RegisteredNames == { list_strategies[i].name : i \in 1..Len(list_strategies) }

\* C21: the registered set is the five concrete strategy classes, and
\* get_strategy_from_string(name) returns the constructor of the class named
\* name when it is one of them and otherwise raises with a message naming name
C21_LookupByExactName ==
    /\ RegisteredNames = StrategyNames
    /\ outcome.op = "get_strategy_from_string" =>
          LET name == outcome.more.asked[1]
          IN  IF name \in StrategyNames
              THEN outcome.status = "return" /\ outcome.more.value = << name >>
              ELSE /\ outcome.status = "raise"
                   /\ \E k \in 1..Len(outcome.more.value) : outcome.more.value[k] = name

\* the name of the abstract base was asked for and refused
C21_AbstractBaseRefused ==
    /\ outcome.op = "get_strategy_from_string"
    /\ outcome.more.asked = << "OptionsStrategy" >>
    /\ outcome.status = "raise"

\* C23: the definition of every strategy has as many rows in A as entries in
\* lower_bound and in upper_bound, and every row of A has 2 * leg_count columns
C23_ConstraintWellShaped ==
    (outcome.op = "definition" /\ outcome.status = "return") =>
        LET d == outcome.more.value
        IN  /\ Len(d.A) = Len(d.lower_bound)
            /\ Len(d.A) = Len(d.upper_bound)
            /\ \A i \in 1..Len(d.A) : Len(d.A[i]) = 2 * leg_count(strategies[1].name)

\* the definition of a strategy of two legs was read
C23_DefinitionRead ==
    /\ outcome.op = "definition"
    /\ outcome.status = "return"
    /\ leg_count(strategies[1].name) = 2
    /\ Len(outcome.more.value.A) >= 1

\* has the constraint of a BullCallSpread just been evaluated at a vector
BullCallSpreadTried ==
    /\ outcome.op = "strategy_definition"
    /\ strategies[1].name = "BullCallSpread"

\* C24: the constraint of BullCallSpread admits [qty, K1, T1, K2, T2] exactly
\* when 1 <= K2 - K1 <= 100000 and T1 = T2, whatever qty is
C24_BullCallSpreadAdmits ==
    BullCallSpreadTried =>
        LET x == outcome.more.asked
        IN  outcome.more.value[1] <=> /\ x[4] - x[2] >= 1 * Milli
                                      /\ x[4] - x[2] <= 100000 * Milli
                                      /\ x[3] = x[5]

\* a vector with the strikes exactly a dollar apart, one expiration and a
\* quantity other than 1 was admitted
C24_DollarApartAdmitted ==
    /\ BullCallSpreadTried
    /\ outcome.more.value = << TRUE >>
    /\ outcome.more.asked[4] - outcome.more.asked[2] = 1 * Milli
    /\ outcome.more.asked[1] # 1 * Milli

\* the profit of the i-th combination of the enumeration
GridProfit(i) == StratProfit(GridStrats[i], market)

\* several combinations have the greatest profit
GridTie ==
    \E i, j \in 1..Len(GridStrats) :
        /\ i # j
        /\ GridProfit(i) = GridProfit(j)
        /\ \A k \in 1..Len(GridStrats) : GridProfit(k) <= GridProfit(i)

\* the combination kept is the first of the enumeration with the greatest profit
KeptIsFirstGreatest ==
    \E i \in 1..Len(GridStrats) :
        /\ grid._opt_strategy = GridStrats[i]
        /\ \A k \in 1..Len(GridStrats) : GridProfit(k) <= GridProfit(i)
        /\ \A k \in 1..(i - 1) : GridProfit(k) < GridProfit(i)

\* C25: after GridSearchBS.optimize(), when several combinations have the same
\* greatest profit, the combination kept is the first of them in the order of
\* the enumeration
C25_TiesKeepFirst ==
    (created = "GridSearchBS" /\ grid.is_optimized /\ GridTie) => KeptIsFirstGreatest

\* optimize() has run on a grid where several combinations share the greatest
\* profit
C25_TieScanned ==
    /\ created = "GridSearchBS"
    /\ grid.is_optimized
    /\ GridTie

\* the signs the premiums of a leg enter the cash flows with: paid to open and
\* received to close when the leg is bought, the reverse when it is sold
OpenSign(action) == IF action = "buy" THEN -1 ELSE 1
CloseSign(action) == IF action = "buy" THEN 1 ELSE -1

\* the premium of a solved leg at the opening, and at the close at equity_price
\* with the days get_profit passes
PremiumOpen(leg) ==
    price_option(IF leg.type = "call" THEN 1 ELSE -1, market.current_price, leg.strike,
                 leg.days_to_expiration, market.r, market.sigma)
PremiumClose(leg, equity_price) ==
    price_option(IF leg.type = "call" THEN 1 ELSE -1, equity_price, leg.strike,
                 leg.days_to_expiration - market.days_forward, market.r, market.sigma)

\* has get_profit just returned the profit of one leg of the strategy
ReturnedOneLeg ==
    /\ ReturnedProfit
    /\ outcome.args.leg # <<>>
    /\ outcome.args.leg[1] \in 1..Len(SolvedLegs(outcome.args.by))

InsideBox(x, b) == \A j \in 1..Len(b) : Within(x[j], b[j])

\* the constraint of a BullCallSpread admitted a vector inside the bounds of
\* the strategy object
BullCallSpreadFeasible ==
    /\ BullCallSpreadTried
    /\ ~BoundsRaises(strategies[1])
    /\ outcome.more.value = << TRUE >>
    /\ InsideBox(outcome.more.asked, bounds(strategies[1]))

\* C27: every vector within the bounds of a BullCallSpread that its definition
\* admits has underlying_price <= K1 < K2 and T1 = T2
C27_BoughtCallAboveUnderlying ==
    BullCallSpreadFeasible =>
        LET x == outcome.more.asked
        IN  /\ strategies[1].underlying_price <= x[2]
            /\ x[2] < x[4]
            /\ x[3] = x[5]

\* a vector within the bounds was admitted whose bought call has a strike below
\* the underlying price
C27_BoughtCallBelowUnderlying ==
    /\ BullCallSpreadFeasible
    /\ outcome.more.asked[2] < strategies[1].underlying_price

\* x0 of the strategy object was read and its bounds do not raise
X0Read ==
    /\ outcome.op = "x0"
    /\ outcome.status = "return"
    /\ ~BoundsRaises(strategies[1])

\* C28: for every strategy class, underlying price, minimum days and non-empty
\* catalog, x0 lies inside bounds component by component
C28_StartInsideBounds ==
    X0Read => InsideBox(outcome.more.value, bounds(strategies[1]))

\* x0 was read from a strategy whose bounds are all well-formed
C28_StartReadWellFormed ==
    /\ X0Read
    /\ ~BoundsRefused(bounds(strategies[1]))

\* bounds of the strategy object was read and returned a list
BoundsRead == outcome.op = "bounds" /\ outcome.status = "return"

\* C29: on a catalog with an expiration and a strike for each option type the
\* strategy uses, every pair of bounds has its lower end at or below its upper
C29_BoundsWellFormed ==
    BoundsRead =>
        \A j \in 1..Len(outcome.more.value) : outcome.more.value[j][1] <= outcome.more.value[j][2]

\* bounds was read from a strategy whose minimum days are at or beyond the
\* last expiration of its catalog
C29_NoExpirationLateEnough ==
    /\ BoundsRead
    /\ \A t \in BoundsTypes(strategies[1].name) :
          strategies[1].min_days_to_expiration
              >= SeqMax(Expirations(strategies[1].available_options[t]))

\* the days_to_expiration get_profit passed to the pricing function for the
\* closing premium of the k-th leg it priced
ClosingDays(k) ==
    SolvedLegs(outcome.args.by)[outcome.more.priced[k]].days_to_expiration - market.days_forward

\* C30: every closing premium get_profit asks of the pricing function is for
\* days_to_expiration - days_forward >= 0
C30_ClosingDaysNotNegative ==
    ReturnedProfit => \A k \in 1..Len(outcome.more.priced) : ClosingDays(k) >= 0

\* get_profit priced a leg, solved within the bounds of its days, for a
\* negative number of days
C30_PricedPastExpiration ==
    /\ ReturnedProfit
    /\ InsideBox(optimizers[outcome.args.by]._optimization_result.x,
                 bounds(strategies[outcome.args.by]))
    /\ \E k \in 1..Len(outcome.more.priced) : ClosingDays(k) < 0

=============================================================================
